---------------------------- MODULE Spec2Model ----------------------------
(* A model of the CRM data generator (src/src/generate_data.py):             *)
(* the table-spec parser, the dependency resolver and the execution driver   *)
(* of the live-insert mode.                                                  *)
(*                                                                           *)
(* Representation choices:                                                   *)
(*  - a Python Optional[int] is a record [some, v]; None is [some |-> FALSE] *)
(*  - a Python dict is a record [keys, val]: keys in insertion order and the *)
(*    value of each key                                                      *)
(*  - the --tables string is the sequence of its comma-separated tokens;     *)
(*    each token is its text before the first ':' and, when a ':' is         *)
(*    present, the integer its count text denotes                            *)
(*  - identifiers of a table are 1..n: rows that exist when the connection   *)
(*    is opened have the low numbers, a row inserted by the run gets the     *)
(*    next number (RETURNING id of a serial column)                          *)
(*  - identifier pools are sets: random.choice reads them, order is unused   *)
EXTENDS Integers, Sequences, FiniteSets, TLC

VARIABLES
    pc,                 \* position of main(): parse, resolve, connect, ...
    args,               \* argparse result: tables, count, no_deps
    table_counts,       \* main: dict returned by parse_table_spec
    unknown_table,      \* the table named by the "Unknown table" message
    r_pc,               \* position inside resolve_dependencies
    r_tables,           \* resolve_dependencies: parameter tables
    r_include_deps,     \* resolve_dependencies: parameter include_deps
    to_generate,        \* resolve_dependencies: local set
    added,              \* resolve_dependencies: local flag of the closure loop
    snapshot,           \* resolve_dependencies: what is left of list(to_generate)
    ordered,            \* resolve_dependencies: local list
    remaining,          \* resolve_dependencies: local set
    last_pass,          \* what the last pass of the ordering loop did
    r_result,           \* resolve_dependencies: returned list
    tables_to_generate, \* main: the resolved plan
    final_counts,       \* main: count of every table of the plan
    connection,         \* of "with engine.connect() as conn": none, open, closed
    store0,             \* the store as it was when the connection was opened
    persisted,          \* the store as committed
    visible,            \* the store as the open connection sees it
    company_ids,        \* main: pool
    contact_ids,        \* main: pool
    contact_company_map,\* main: contact id -> company id
    product_data,       \* main: pool of product ids (prices left out)
    deal_ids,           \* main: pool
    idx,                \* main: position of the for loop over the plan
    last_rows,          \* the records the last generator call created
    fetched,            \* tables whose identifiers the run read from the store
    generated,          \* tables whose generator the run has called, in order
    commits,            \* number of conn.commit() calls
    g_pc,               \* position inside a generator that is followed step by step
    deal_products,      \* generate_deal_products: local list (its pairs)
    used_pairs,         \* generate_deal_products: local set
    pair,               \* generate_deal_products: the pair drawn last
    used_skus,          \* generate_products: local set
    sku,                \* generate_products: the SKU drawn last
    reported,           \* verify_data: the count printed for every table checked
    out                 \* generate_data_sql.py: the statements printed to stdout

vars == <<pc, args, table_counts, unknown_table, r_pc, r_tables, r_include_deps,
          to_generate, added, snapshot, ordered, remaining, last_pass, r_result,
          tables_to_generate, final_counts, connection, store0, persisted, visible,
          company_ids, contact_ids, contact_company_map, product_data, deal_ids,
          idx, last_rows, fetched, generated, commits,
          g_pc, deal_products, used_pairs, pair, used_skus, sku, reported, out>>

resolverVars == <<r_pc, r_tables, r_include_deps, to_generate, added, snapshot, ordered,
                  remaining, last_pass, r_result>>

driverVars == <<tables_to_generate, final_counts, connection, store0, persisted, visible,
                company_ids, contact_ids, contact_company_map, product_data,
                deal_ids, idx, last_rows, fetched, generated, commits>>

genVars == <<g_pc, deal_products, used_pairs, pair, used_skus, sku>>

outputVars == <<reported, out>>

-----------------------------------------------------------------------------
(* Bounds of the model *)

\* the largest count written in a token or given as --count in a run
MaxCount == 2
\* the largest number of rows per table in the store before the run
MaxStore == 1
\* the largest number of tokens of a --tables string
MaxTokens == 2

-----------------------------------------------------------------------------
(* Schema descriptor *)

ALL_TABLES ==
    <<"companies", "contacts", "deals", "products",
      "deal_products", "activities", "notes", "tasks">>

TableSet == {ALL_TABLES[i] : i \in 1..Len(ALL_TABLES)}

\* TABLE_DEPENDENCIES with companies made to depend on tasks: a graph with a
\* cycle
TABLE_DEPENDENCIES_Cyclic ==
    [t \in TableSet |->
        CASE t = "companies"     -> <<"tasks">>
          [] t = "contacts"      -> <<"companies">>
          [] t = "deals"         -> <<"companies", "contacts">>
          [] t = "products"      -> <<>>
          [] t = "deal_products" -> <<"deals", "products">>
          [] t = "activities"    -> <<"contacts">>
          [] t = "notes"         -> <<"contacts">>
          [] t = "tasks"         -> <<"deals">>]

TABLE_DEPENDENCIES ==
    [t \in TableSet |->
        CASE t = "companies"     -> <<>>
          [] t = "contacts"      -> <<"companies">>
          [] t = "deals"         -> <<"companies", "contacts">>
          [] t = "products"      -> <<>>
          [] t = "deal_products" -> <<"deals", "products">>
          [] t = "activities"    -> <<"contacts">>
          [] t = "notes"         -> <<"contacts">>
          [] t = "tasks"         -> <<"deals">>]

DEFAULT_COUNTS ==
    [t \in TableSet |->
        CASE t = "companies"     -> 100
          [] t = "contacts"      -> 500
          [] t = "deals"         -> 200
          [] t = "products"      -> 50
          [] t = "deal_products" -> 300
          [] t = "activities"    -> 400
          [] t = "notes"         -> 300
          [] t = "tasks"         -> 150]

\* TABLE_DEPENDENCIES.get(table, []) as a set
Deps(table) ==
    IF table \in DOMAIN TABLE_DEPENDENCIES
    THEN {TABLE_DEPENDENCIES[table][i] : i \in 1..Len(TABLE_DEPENDENCIES[table])}
    ELSE {}

\* DEFAULT_COUNTS.get(table, 100)
DefaultCount(table) ==
    IF table \in DOMAIN DEFAULT_COUNTS THEN DEFAULT_COUNTS[table] ELSE 100

-----------------------------------------------------------------------------
(* Python values *)

None == [some |-> FALSE, v |-> 0]
Some(n) == [some |-> TRUE, v |-> n]

\* truth value of an Optional[int]: None and 0 are false
Truthy(opt) == opt.some /\ opt.v # 0

Range(s) == {s[i] : i \in 1..Len(s)}

EmptyDict == [keys |-> <<>>, val |-> [k \in {} |-> 0]]

\* d[k] = v: a new key goes to the end, an old key keeps its place
DictSet(d, k, v) ==
    [keys |-> IF k \in DOMAIN d.val THEN d.keys ELSE Append(d.keys, k),
     val  |-> [x \in (DOMAIN d.val) \cup {k} |-> IF x = k THEN v ELSE d.val[x]]]

\* the elements of s that are in keep, in the order of s
RECURSIVE SelectIn(_, _)
SelectIn(s, keep) ==
    IF s = <<>> THEN <<>>
    ELSE IF Head(s) \in keep THEN <<Head(s)>> \o SelectIn(Tail(s), keep)
         ELSE SelectIn(Tail(s), keep)

NoRepeats(s) == \A i, j \in 1..Len(s) : i # j => s[i] # s[j]

-----------------------------------------------------------------------------
(* Table-spec parser: parse_table_spec *)

\* str.strip() on the token texts of the model
Strip(s) ==
    CASE s = " all"         -> "all"
      [] s = " companies "  -> "companies"
      [] OTHER              -> s

\* str.lower() on the token texts of the model
Lower(s) ==
    CASE s = "ALL"          -> "all"
      [] s = "Companies"    -> "companies"
      [] OTHER              -> s

Token(name, count) == [name |-> name, count |-> count]

\* tables_arg.lower() == 'all': the whole string, so one token without ':'
IsAll(tables_arg) ==
    /\ Len(tables_arg) = 1
    /\ ~tables_arg[1].count.some
    /\ Lower(tables_arg[1].name) = "all"

\* tables_list: ALL_TABLES, or the stripped pieces of split(',')
TablesList(tables_arg) ==
    IF IsAll(tables_arg)
    THEN [i \in 1..Len(ALL_TABLES) |-> Token(ALL_TABLES[i], None)]
    ELSE [i \in 1..Len(tables_arg) |->
             Token(Strip(tables_arg[i].name), tables_arg[i].count)]

\* TokenCount with a given default_count used for every token
TokenCountDefaultFirst(spec, default_count) ==
    IF Truthy(default_count) THEN default_count.v
    ELSE IF spec.count.some THEN spec.count.v
         ELSE DefaultCount(Strip(spec.name))

\* the count of one entry of tables_list
TokenCount(spec, default_count) ==
    IF spec.count.some
    THEN spec.count.v
    ELSE IF Truthy(default_count) THEN default_count.v
         ELSE DefaultCount(Strip(spec.name))

\* ParseLoop with an unknown table left out of the result instead of exiting
RECURSIVE ParseLoopSkipsUnknown(_, _, _, _)
ParseLoopSkipsUnknown(tables_list, i, result, default_count) ==
    IF i > Len(tables_list)
    THEN [ok |-> TRUE, unknown |-> "", result |-> result]
    ELSE LET spec  == tables_list[i]
             table == Strip(spec.name)
             count == TokenCount(spec, default_count)
         IN  ParseLoopSkipsUnknown(tables_list, i + 1,
                IF table \in TableSet THEN DictSet(result, table, count) ELSE result,
                default_count)

\* the loop over tables_list from position i on; sys.exit(1) at the first
\* table that is not in ALL_TABLES
RECURSIVE ParseLoop(_, _, _, _)
ParseLoop(tables_list, i, result, default_count) ==
    IF i > Len(tables_list)
    THEN [ok |-> TRUE, unknown |-> "", result |-> result]
    ELSE LET spec  == tables_list[i]
             table == Strip(spec.name)
             count == TokenCount(spec, default_count)
         IN  IF table \notin TableSet
             THEN [ok |-> FALSE, unknown |-> table, result |-> result]
             ELSE ParseLoop(tables_list, i + 1, DictSet(result, table, count),
                            default_count)

parse_table_spec(tables_arg, default_count) ==
    ParseLoop(TablesList(tables_arg), 1, EmptyDict, default_count)

-----------------------------------------------------------------------------
(* Dependency resolver: resolve_dependencies, one loop pass per step *)

\* ClosurePass with the dependencies never added
ClosurePassAddsNothing(gen) == gen

\* one pass of the closure loop: for table in list(to_generate), every
\* dependency that is not in to_generate is added
ClosurePass(gen) == gen \cup UNION {Deps(table) : table \in gen}

\* all(d in ordered or d not in to_generate for d in deps)
Eligible(table, ord, gen) ==
    \A d \in Deps(table) : d \in Range(ord) \/ d \notin gen

\* the table at which the for loop over ALL_TABLES breaks
PlaceableAt(i, ord, rem, gen) ==
    /\ ALL_TABLES[i] \in rem
    /\ Eligible(ALL_TABLES[i], ord, gen)

CanPlace(ord, rem, gen) ==
    \E i \in 1..Len(ALL_TABLES) : PlaceableAt(i, ord, rem, gen)

\* FirstPlaceable for a scan of ALL_TABLES from its end
LastPlaceable(ord, rem, gen) ==
    ALL_TABLES[CHOOSE i \in 1..Len(ALL_TABLES) :
                  /\ PlaceableAt(i, ord, rem, gen)
                  /\ \A j \in (i+1)..Len(ALL_TABLES) : ~PlaceableAt(j, ord, rem, gen)]

FirstPlaceable(ord, rem, gen) ==
    ALL_TABLES[CHOOSE i \in 1..Len(ALL_TABLES) :
                  /\ PlaceableAt(i, ord, rem, gen)
                  /\ \A j \in 1..(i-1) : ~PlaceableAt(j, ord, rem, gen)]

\* PlaceChoices for a loop that goes over the set remaining, in any order
PlaceChoicesAnyOrder(ord, rem, gen) == {table \in rem : Eligible(table, ord, gen)}

\* the tables one pass of "while remaining" can place: the for loop goes over
\* the list ALL_TABLES and breaks at the first it can place
PlaceChoices(ord, rem, gen) == {FirstPlaceable(ord, rem, gen)}

\* NoDepsResult with the tables put in the order of ALL_TABLES
NoDepsResultSorted(tables) == SelectIn(ALL_TABLES, Range(tables))

\* the result of "if not include_deps: return tables"
NoDepsResult(tables) == tables

\* entry of the function: the early return, or the start of the closure loop
ResolveEntry ==
    /\ r_pc = "entry"
    /\ IF ~r_include_deps
       THEN /\ r_result' = NoDepsResult(r_tables)
            /\ r_pc' = "returned"
            /\ UNCHANGED <<to_generate, added>>
       ELSE /\ to_generate' = Range(r_tables)
            /\ added' = TRUE
            /\ r_pc' = "closure"
            /\ UNCHANGED r_result
    /\ UNCHANGED <<r_tables, r_include_deps, ordered, remaining, last_pass>>
    /\ UNCHANGED snapshot
    /\ UNCHANGED <<pc, args, table_counts, unknown_table>>
    /\ UNCHANGED driverVars
    /\ UNCHANGED <<genVars, outputVars>>

\* one iteration of "while added"
ClosureStep ==
    /\ r_pc = "closure"
    /\ added
    /\ to_generate' = ClosurePass(to_generate)
    /\ added' = (to_generate' # to_generate)
    /\ UNCHANGED <<r_pc, r_tables, r_include_deps, ordered, remaining, last_pass,
                   r_result>>
    /\ UNCHANGED snapshot
    /\ UNCHANGED <<pc, args, table_counts, unknown_table>>
    /\ UNCHANGED driverVars
    /\ UNCHANGED <<genVars, outputVars>>

\* the closure loop ends: ordered = [], remaining = to_generate.copy()
ClosureDone ==
    /\ r_pc = "closure"
    /\ ~added
    /\ ordered' = <<>>
    /\ remaining' = to_generate
    /\ r_pc' = "order"
    /\ UNCHANGED <<r_tables, r_include_deps, to_generate, added, last_pass, r_result>>
    /\ UNCHANGED snapshot
    /\ UNCHANGED <<pc, args, table_counts, unknown_table>>
    /\ UNCHANGED driverVars
    /\ UNCHANGED <<genVars, outputVars>>

\* one iteration of "while remaining": the for loop places the first table
\* it can and breaks, or runs to its end and places nothing
OrderStep ==
    /\ r_pc = "order"
    /\ remaining # {}
    /\ IF CanPlace(ordered, remaining, to_generate)
       THEN \E table \in PlaceChoices(ordered, remaining, to_generate) :
                /\ ordered' = Append(ordered, table)
                /\ remaining' = remaining \ {table}
                /\ last_pass' = "placed"
       ELSE /\ last_pass' = "nothing"
            /\ UNCHANGED <<ordered, remaining>>
    /\ UNCHANGED <<r_pc, r_tables, r_include_deps, to_generate, added, r_result>>
    /\ UNCHANGED snapshot
    /\ UNCHANGED <<pc, args, table_counts, unknown_table>>
    /\ UNCHANGED driverVars
    /\ UNCHANGED <<genVars, outputVars>>

\* "return ordered"
ResolveReturn ==
    /\ r_pc = "order"
    /\ remaining = {}
    /\ r_result' = ordered
    /\ r_pc' = "returned"
    /\ UNCHANGED <<r_tables, r_include_deps, to_generate, added, ordered, remaining,
                   last_pass>>
    /\ UNCHANGED snapshot
    /\ UNCHANGED <<pc, args, table_counts, unknown_table>>
    /\ UNCHANGED driverVars
    /\ UNCHANGED <<genVars, outputVars>>

\* a store: the number of rows of every table (their ids are 1..n) and the
\* company of every contact
EmptyStore == [n |-> [t \in TableSet |-> 0], contact_company |-> <<>>]

ResolverIdle ==
    /\ r_pc = "idle"
    /\ r_tables = <<>>
    /\ r_include_deps = TRUE
    /\ to_generate = {}
    /\ added = FALSE
    /\ snapshot = {}
    /\ ordered = <<>>
    /\ remaining = {}
    /\ last_pass = "none"
    /\ r_result = <<>>

DriverIdle ==
    /\ tables_to_generate = <<>>
    /\ final_counts = [t \in {} |-> 0]
    /\ connection = "none"
    /\ store0 = EmptyStore
    /\ persisted = EmptyStore
    /\ visible = EmptyStore
    /\ company_ids = {}
    /\ contact_ids = {}
    /\ contact_company_map = <<>>
    /\ product_data = {}
    /\ deal_ids = {}
    /\ idx = 0
    /\ last_rows = {}
    /\ fetched = {}
    /\ generated = <<>>
    /\ commits = 0

\* no generator is being followed step by step
GenIdle ==
    /\ g_pc = "idle"
    /\ deal_products = <<>>
    /\ used_pairs = {}
    /\ pair = <<0, 0>>
    /\ used_skus = {}
    /\ sku = <<"", 0>>

\* nothing was printed
OutputIdle ==
    /\ reported = <<>>
    /\ out = <<>>

-----------------------------------------------------------------------------
(* The resolver alone, on every list of requested tables of the model *)

\* the names a caller may pass: the tables, and one name that is no table
RequestNames == TableSet \cup {"bogus"}

\* the tables of S in the order of ALL_TABLES, then "bogus" when in S
ListOf(S) ==
    SelectIn(ALL_TABLES, S) \o (IF "bogus" \in S THEN <<"bogus">> ELSE <<>>)

ShortLists ==
    {s \in UNION {[1..k -> RequestNames] : k \in 0..MaxTokens} : NoRepeats(s)}

\* every subset once (in the order of ALL_TABLES) and every short list in
\* every order
RequestLists == {ListOf(S) : S \in SUBSET RequestNames} \cup ShortLists

InitResolve ==
    /\ pc = "resolver"
    /\ args = [tables |-> <<>>, count |-> None, no_deps |-> FALSE]
    /\ table_counts = EmptyDict
    /\ unknown_table = ""
    /\ r_pc = "entry"
    /\ r_tables \in RequestLists
    /\ r_include_deps \in BOOLEAN
    /\ to_generate = {}
    /\ added = FALSE
    /\ snapshot = {}
    /\ ordered = <<>>
    /\ remaining = {}
    /\ last_pass = "none"
    /\ r_result = <<>>
    /\ DriverIdle
    /\ GenIdle
    /\ OutputIdle

NextResolve ==
    \/ ResolveEntry
    \/ ClosureStep
    \/ ClosureDone
    \/ OrderStep
    \/ ResolveReturn

SpecResolve == InitResolve /\ [][NextResolve]_vars

-----------------------------------------------------------------------------
(* The resolver with the closure loop followed one table per step: the for  *)
(* loop goes over list(to_generate), a set, in an order the code does not   *)
(* fix                                                                       *)

\* what a step inside a pass of the closure loop leaves alone
PassFrame ==
    /\ UNCHANGED <<r_tables, r_include_deps, ordered, remaining, last_pass, r_result>>
    /\ UNCHANGED <<pc, args, table_counts, unknown_table>>
    /\ UNCHANGED driverVars
    /\ UNCHANGED <<genVars, outputVars>>

\* "while added": added = False, and the list the for loop will go over
PassBegin ==
    /\ r_pc = "closure"
    /\ added
    /\ added' = FALSE
    /\ snapshot' = to_generate
    /\ r_pc' = "pass"
    /\ UNCHANGED to_generate
    /\ PassFrame

\* the for loop takes a table of the list, whichever comes next, and adds its
\* dependencies that are not in to_generate
Visit ==
    /\ r_pc = "pass"
    /\ \E table \in snapshot :
          /\ to_generate' = to_generate \cup Deps(table)
          /\ added' = (added \/ ~(Deps(table) \subseteq to_generate))
          /\ snapshot' = snapshot \ {table}
    /\ UNCHANGED r_pc
    /\ PassFrame

\* the for loop has gone over the whole list
PassEnd ==
    /\ r_pc = "pass"
    /\ snapshot = {}
    /\ r_pc' = "closure"
    /\ UNCHANGED <<to_generate, added, snapshot>>
    /\ PassFrame

NextResolveStepwise ==
    \/ ResolveEntry
    \/ PassBegin
    \/ Visit
    \/ PassEnd
    \/ ClosureDone
    \/ OrderStep
    \/ ResolveReturn

SpecResolveStepwise == InitResolve /\ [][NextResolveStepwise]_vars

\* the function is run by one thread that takes its next step whenever it
\* has one
FairResolveStepwise == SpecResolveStepwise /\ WF_vars(NextResolveStepwise)

-----------------------------------------------------------------------------
(* The parser alone *)

\* the token texts the parser is tried on
ParseNames ==
    {"companies", "contacts", "tasks",
     "all", "ALL", " all", "bogus", "Companies", " companies ", ""}

\* counts written in a token
TokenCounts == {-1, 0, 50}

\* values of default_count
DefaultCounts == {0, 100}

ParseTokens ==
    {Token(name, count) :
        name \in ParseNames, count \in {None} \cup {Some(c) : c \in TokenCounts}}

ParseSpecs == UNION {[1..k -> ParseTokens] : k \in 1..MaxTokens}

\* main(): table_counts = parse_table_spec(args.tables, args.count), and on
\* success the call of resolve_dependencies
ParseArgs ==
    /\ pc = "parse"
    /\ LET p == parse_table_spec(args.tables, args.count)
       IN  IF p.ok
           THEN /\ table_counts' = p.result
                /\ unknown_table' = ""
                /\ pc' = "resolve"
                /\ r_pc' = "entry"
                /\ r_tables' = p.result.keys
                /\ r_include_deps' = ~args.no_deps
           ELSE /\ table_counts' = EmptyDict
                /\ unknown_table' = p.unknown
                /\ pc' = "exit"
                /\ UNCHANGED <<r_pc, r_tables, r_include_deps>>
    /\ UNCHANGED <<args, to_generate, added, snapshot, ordered, remaining, last_pass,
                   r_result>>
    /\ UNCHANGED driverVars
    /\ UNCHANGED <<genVars, outputVars>>

InitParse ==
    /\ pc = "parse"
    /\ args \in [tables : ParseSpecs,
                 count : {None} \cup {Some(c) : c \in DefaultCounts},
                 no_deps : {FALSE}]
    /\ table_counts = EmptyDict
    /\ unknown_table = ""
    /\ ResolverIdle
    /\ DriverIdle
    /\ GenIdle
    /\ OutputIdle

NextParse == ParseArgs

SpecParse == InitParse /\ [][NextParse]_vars

-----------------------------------------------------------------------------
(* Execution driver: main() of the live-insert mode *)

NULL == 0

\* the rows range(count) produces
Count(count) == IF count > 0 THEN count ELSE 0

\* the requests 'companies:n,contacts:m' followed with counts above MaxCount
ScenarioCompanies == 1..3
ScenarioContacts == 1..5

ScenarioSpecs ==
    {<<Token("companies", Some(n)), Token("contacts", Some(m))>> :
        n \in ScenarioCompanies, m \in ScenarioContacts}

\* the run is followed only while the counts stay within the bound
InBounds(count) == count <= MaxCount \/ args.tables \in ScenarioSpecs

\* FinalCount with args.count looked at before table_counts
FinalCountGlobalFirst(table, counts, count_arg) ==
    IF Truthy(count_arg) THEN count_arg.v
    ELSE IF table \in DOMAIN counts.val THEN counts.val[table]
         ELSE DefaultCount(table)

\* final_counts[table], lines 730-735
FinalCount(table, counts, count_arg) ==
    IF table \in DOMAIN counts.val THEN counts.val[table]
    ELSE IF Truthy(count_arg) THEN count_arg.v
         ELSE DefaultCount(table)

\* fetch_existing_ids returning one identifier more than the table holds
fetch_existing_ids_one_more(conn, table) == 1..(conn.n[table] + 1)

\* SELECT id FROM table, on the open connection
fetch_existing_ids(conn, table) == 1..conn.n[table]

\* SELECT id, company_id FROM contacts
fetch_contact_company_map(conn) == conn.contact_company

\* "if not pool: pool = fetch_existing_ids(conn, table)"
PoolOrFetch(pool, conn, table) ==
    IF pool = {} THEN fetch_existing_ids(conn, table) ELSE pool

\* PoolMissing with the check left out
PoolMissingNever(pool) == FALSE

\* "if not company_ids:" after the fetch: the error message and sys.exit(1)
PoolMissing(pool) == pool = {}

\* the tables read from the store so far, after that statement
FetchedAfter(seen, pool, table) ==
    IF pool = {} THEN seen \cup {table} ELSE seen

\* NewIds with the ids the table already held returned as well
NewIdsWithOld(conn, table, k) == 1..(conn.n[table] + Count(k))

\* the ids RETURNING id gives to k new rows of a table
NewIds(conn, table, k) == (conn.n[table] + 1)..(conn.n[table] + Count(k))

\* Inserted with the rows put into companies, whatever the table
InsertedIntoCompanies(conn, table, k) ==
    [conn EXCEPT !.n["companies"] = @ + Count(k)]

\* the store after k rows were inserted into a table that is not contacts
Inserted(conn, table, k) ==
    [conn EXCEPT !.n[table] = @ + Count(k)]

\* the store after contacts with the companies of f were inserted
InsertedContacts(conn, f) ==
    [n |-> [conn.n EXCEPT !["contacts"] = @ + Cardinality(DOMAIN f)],
     contact_company |->
        [i \in 1..(conn.n["contacts"] + Cardinality(DOMAIN f)) |->
            IF i <= conn.n["contacts"] THEN conn.contact_company[i] ELSE f[i]]]

Row(table, id, company_id, contact_id, deal_id, product_id) ==
    [table |-> table, id |-> id, company_id |-> company_id,
     contact_id |-> contact_id, deal_id |-> deal_id, product_id |-> product_id]

\* CompanyContacts without the filter on the company
CompanyContactsUnfiltered(map, company_id) == DOMAIN map

\* generate_deals line 291: the contacts of the mapping that belong to a company
CompanyContacts(map, company_id) ==
    {cid \in DOMAIN map : map[cid] = company_id}

\* generate_deals line 292: a contact of the company, or None when it has none
ContactChoices(map, company_id) ==
    IF CompanyContacts(map, company_id) # {}
    THEN CompanyContacts(map, company_id)
    ELSE {NULL}

\* the (company, contact) pairs one deal can get
DealChoices(companies, map) ==
    {q \in companies \X (DOMAIN map \cup {NULL}) :
        q[2] \in ContactChoices(map, q[1])}

\* the stores a run can find when it connects: every row of contacts and of
\* deals references a company that exists
MkStore(c, cc, d, p) ==
    [n |-> [t \in TableSet |->
               CASE t = "companies" -> c
                 [] t = "contacts"  -> Len(cc)
                 [] t = "deals"     -> d
                 [] t = "products"  -> p
                 [] OTHER           -> 0],
     contact_company |-> cc]

StoresWith(c) ==
    {MkStore(c, cc, d, p) :
        cc \in UNION {[1..k -> 1..c] : k \in 0..MaxStore},
        d \in (IF c = 0 THEN {0} ELSE 0..MaxStore),
        p \in 0..MaxStore}

Stores == UNION {StoresWith(c) : c \in 0..MaxStore}

\* lines 727-735: the plan and the count of each of its tables
BuildPlan ==
    /\ pc = "resolve"
    /\ r_pc = "returned"
    /\ tables_to_generate' = r_result
    /\ final_counts' =
          [t \in Range(r_result) |-> FinalCount(t, table_counts, args.count)]
    /\ pc' = "connect"
    /\ UNCHANGED <<args, table_counts, unknown_table>>
    /\ UNCHANGED resolverVars
    /\ UNCHANGED <<genVars, outputVars>>
    /\ UNCHANGED <<connection, store0, persisted, visible, company_ids, contact_ids,
                   contact_company_map, product_data, deal_ids, idx, last_rows,
                   fetched, generated, commits>>

\* lines 737-770: the engine, "with engine.connect() as conn", empty pools
Connect ==
    /\ pc = "connect"
    /\ \E s \in Stores :
          /\ store0' = s
          /\ persisted' = s
          /\ visible' = s
    /\ connection' = "open"
    /\ company_ids' = {}
    /\ contact_ids' = {}
    /\ contact_company_map' = <<>>
    /\ product_data' = {}
    /\ deal_ids' = {}
    /\ idx' = 1
    /\ pc' = "generate"
    /\ UNCHANGED <<args, table_counts, unknown_table>>
    /\ UNCHANGED resolverVars
    /\ UNCHANGED <<genVars, outputVars>>
    /\ UNCHANGED <<tables_to_generate, final_counts, last_rows, fetched, generated,
                   commits>>

\* the for loop is at a table of the plan
AtTable(table) ==
    /\ pc = "generate"
    /\ idx <= Len(tables_to_generate)
    /\ tables_to_generate[idx] = table

\* what no step of the for loop changes
LoopFrame ==
    /\ UNCHANGED <<args, table_counts, unknown_table>>
    /\ UNCHANGED resolverVars
    /\ UNCHANGED <<genVars, outputVars>>
    /\ UNCHANGED <<tables_to_generate, final_counts, store0, commits>>

\* Leave with every insert already committed (an autocommitting connection)
LeaveAutocommitted(how, seen) ==
    /\ pc' = how
    /\ connection' = "closed"
    /\ persisted' = visible
    /\ visible' = visible
    /\ last_rows' = {}
    /\ fetched' = seen
    /\ UNCHANGED idx

\* the run ends inside the with block before conn.commit(): the connection
\* is closed and what it inserted is rolled back
Leave(how, seen) ==
    /\ pc' = how
    /\ connection' = "closed"
    /\ persisted' = persisted
    /\ visible' = persisted
    /\ last_rows' = {}
    /\ fetched' = seen
    /\ UNCHANGED idx

\* sys.exit(1) after "Error: No ... found"
Abort(seen) == Leave("exit", seen)

\* the generator was called and returned: the loop moves on
Advance(table, conn, rows, seen) ==
    /\ visible' = conn
    /\ last_rows' = rows
    /\ fetched' = seen
    /\ generated' = Append(generated, table)
    /\ idx' = idx + 1
    /\ UNCHANGED <<pc, connection, persisted>>

\* conn.execute(text(INSERT ...), rows) of the generators that insert all
\* their rows in one call: with an empty list the outcome is the library's,
\* nothing inserted or an exception for the missing bind parameters
BatchInsert(table, conn, rows, seen) ==
    \/ Advance(table, conn, rows, seen)
    \/ /\ rows = {}
       /\ Leave("error", seen)
       /\ generated' = Append(generated, table)

GenCompanies ==
    /\ AtTable("companies")
    /\ LET count == final_counts["companies"]
           ids   == NewIds(visible, "companies", count)
       IN  /\ InBounds(count)
           /\ company_ids' = ids
           /\ Advance("companies", Inserted(visible, "companies", count),
                      {Row("companies", i, NULL, NULL, NULL, NULL) : i \in ids},
                      fetched)
    /\ UNCHANGED <<contact_ids, contact_company_map, product_data, deal_ids>>
    /\ LoopFrame

GenContacts ==
    /\ AtTable("contacts")
    /\ LET count     == final_counts["contacts"]
           companies == PoolOrFetch(company_ids, visible, "companies")
           seen      == FetchedAfter(fetched, company_ids, "companies")
           ids       == NewIds(visible, "contacts", count)
       IN  IF PoolMissing(companies)
           THEN /\ Abort(seen)
                /\ UNCHANGED <<company_ids, contact_ids, contact_company_map,
                               generated>>
           ELSE /\ InBounds(count)
                /\ company_ids' = companies
                /\ \E f \in [ids -> companies] :
                      /\ contact_ids' = ids
                      /\ contact_company_map' = f
                      /\ Advance("contacts", InsertedContacts(visible, f),
                                 {Row("contacts", i, f[i], NULL, NULL, NULL) :
                                     i \in ids},
                                 seen)
    /\ UNCHANGED <<product_data, deal_ids>>
    /\ LoopFrame

GenProducts ==
    /\ AtTable("products")
    /\ LET count == final_counts["products"]
           ids   == NewIds(visible, "products", count)
       IN  /\ InBounds(count)
           /\ product_data' = ids
           /\ Advance("products", Inserted(visible, "products", count),
                      {Row("products", i, NULL, NULL, NULL, NULL) : i \in ids},
                      fetched)
    /\ UNCHANGED <<company_ids, contact_ids, contact_company_map, deal_ids>>
    /\ LoopFrame

GenDeals ==
    /\ AtTable("deals")
    /\ LET count     == final_counts["deals"]
           companies == PoolOrFetch(company_ids, visible, "companies")
           seen1     == FetchedAfter(fetched, company_ids, "companies")
           contacts  == PoolOrFetch(contact_ids, visible, "contacts")
           map       == IF contact_ids = {}
                        THEN fetch_contact_company_map(visible)
                        ELSE contact_company_map
           seen2     == FetchedAfter(seen1, contact_ids, "contacts")
           ids       == NewIds(visible, "deals", count)
       IN  IF PoolMissing(companies)
           THEN /\ Abort(seen1)
                /\ UNCHANGED <<company_ids, contact_ids, contact_company_map,
                               deal_ids, generated>>
           ELSE IF PoolMissing(contacts)
           THEN \* the companies were fetched (line 794) before the exit
                /\ Abort(seen2)
                /\ company_ids' = companies
                /\ contact_ids' = contacts
                /\ contact_company_map' = map
                /\ UNCHANGED <<deal_ids, generated>>
           ELSE /\ InBounds(count)
                /\ company_ids' = companies
                /\ contact_ids' = contacts
                /\ contact_company_map' = map
                /\ deal_ids' = ids
                /\ \E f \in [ids -> DealChoices(companies, map)] :
                      Advance("deals", Inserted(visible, "deals", count),
                              {Row("deals", i, f[i][1], f[i][2], NULL, NULL) :
                                  i \in ids},
                              seen2)
    /\ UNCHANGED product_data
    /\ LoopFrame

\* the sets of count distinct (deal, product) pairs the retry loop can end with
PairSets(deals, products, count) ==
    {ps \in SUBSET (deals \X products) : Cardinality(ps) = Count(count)}

GenDealProducts ==
    /\ AtTable("deal_products")
    /\ LET count    == final_counts["deal_products"]
           deals    == PoolOrFetch(deal_ids, visible, "deals")
           seen1    == FetchedAfter(fetched, deal_ids, "deals")
           products == PoolOrFetch(product_data, visible, "products")
           seen2    == FetchedAfter(seen1, product_data, "products")
           ids      == NewIds(visible, "deal_products", count)
       IN  IF PoolMissing(deals)
           THEN /\ Abort(seen1)
                /\ UNCHANGED <<deal_ids, product_data, generated>>
           ELSE IF PoolMissing(products)
           THEN \* the deals were fetched (line 812) before the exit
                /\ Abort(seen2)
                /\ deal_ids' = deals
                /\ product_data' = products
                /\ UNCHANGED generated
           ELSE /\ InBounds(count)
                /\ deal_ids' = deals
                /\ product_data' = products
                /\ IF Count(count) > Cardinality(deals \X products)
                   THEN \* no unused pair is left: the while loop never ends
                        /\ pc' = "hang"
                        /\ generated' = Append(generated, "deal_products")
                        /\ fetched' = seen2
                        /\ last_rows' = {}
                        /\ UNCHANGED <<connection, persisted, visible, idx>>
                   ELSE \E ps \in PairSets(deals, products, count) :
                        \E f \in [ids -> ps] :
                           /\ {f[i] : i \in ids} = ps
                           /\ BatchInsert("deal_products",
                                 Inserted(visible, "deal_products", count),
                                 {Row("deal_products", i, NULL, NULL, f[i][1], f[i][2]) :
                                     i \in ids},
                                 seen2)
    /\ UNCHANGED <<company_ids, contact_ids, contact_company_map>>
    /\ LoopFrame

\* activities and notes: the same branch of main() but for the table
GenOnContacts(table) ==
    /\ AtTable(table)
    /\ LET count    == final_counts[table]
           contacts == PoolOrFetch(contact_ids, visible, "contacts")
           seen     == FetchedAfter(fetched, contact_ids, "contacts")
           ids      == NewIds(visible, table, count)
       IN  IF PoolMissing(contacts)
           THEN /\ Abort(seen)
                /\ UNCHANGED <<contact_ids, generated>>
           ELSE /\ InBounds(count)
                /\ contact_ids' = contacts
                /\ \E f \in [ids -> contacts] :
                      BatchInsert(table, Inserted(visible, table, count),
                                  {Row(table, i, NULL, f[i], NULL, NULL) : i \in ids},
                                  seen)
    /\ UNCHANGED <<company_ids, contact_company_map, product_data, deal_ids>>
    /\ LoopFrame

GenActivities == GenOnContacts("activities")

GenNotes == GenOnContacts("notes")

GenTasks ==
    /\ AtTable("tasks")
    /\ LET count == final_counts["tasks"]
           deals == PoolOrFetch(deal_ids, visible, "deals")
           seen  == FetchedAfter(fetched, deal_ids, "deals")
           ids   == NewIds(visible, "tasks", count)
       IN  IF PoolMissing(deals)
           THEN /\ Abort(seen)
                /\ UNCHANGED <<deal_ids, generated>>
           ELSE /\ InBounds(count)
                /\ deal_ids' = deals
                /\ \E f \in [ids -> deals] :
                      BatchInsert("tasks", Inserted(visible, "tasks", count),
                                  {Row("tasks", i, NULL, NULL, f[i], NULL) : i \in ids},
                                  seen)
    /\ UNCHANGED <<company_ids, contact_ids, contact_company_map, product_data>>
    /\ LoopFrame

\* Commit inside the for loop, after any table
CommitInsideLoop ==
    /\ pc = "generate"
    /\ commits < 2
    /\ commits' = commits + 1
    /\ persisted' = visible
    /\ UNCHANGED <<pc, args, table_counts, unknown_table>>
    /\ UNCHANGED resolverVars
    /\ UNCHANGED <<genVars, outputVars>>
    /\ UNCHANGED <<tables_to_generate, final_counts, connection, store0, visible,
                   company_ids, contact_ids, contact_company_map, product_data,
                   deal_ids, idx, last_rows, fetched, generated>>

\* conn.commit() after the for loop
Commit ==
    /\ pc = "generate"
    /\ idx > Len(tables_to_generate)
    /\ commits' = commits + 1
    /\ persisted' = visible
    /\ pc' = "verify"
    /\ UNCHANGED <<args, table_counts, unknown_table>>
    /\ UNCHANGED resolverVars
    /\ UNCHANGED <<genVars, outputVars>>
    /\ UNCHANGED <<tables_to_generate, final_counts, connection, store0, visible,
                   company_ids, contact_ids, contact_company_map, product_data,
                   deal_ids, idx, last_rows, fetched, generated>>

\* verify_data reporting every table one row too many
verify_data_one_more(conn, tables) ==
    LET check_tables == IF tables # <<>> THEN tables ELSE ALL_TABLES
    IN  [table \in Range(check_tables) |-> conn.n[table] + 1]

\* verify_data(conn, tables): SELECT COUNT(*) FROM table, for every table of
\* the list, or of ALL_TABLES when the list is empty or None (line 674)
verify_data(conn, tables) ==
    LET check_tables == IF tables # <<>> THEN tables ELSE ALL_TABLES
    IN  [table \in Range(check_tables) |-> conn.n[table]]

\* verify_data and the end of the with block
Finish ==
    /\ pc = "verify"
    /\ reported' = verify_data(visible, tables_to_generate)
    /\ pc' = "done"
    /\ connection' = "closed"
    /\ UNCHANGED <<args, table_counts, unknown_table>>
    /\ UNCHANGED resolverVars
    /\ UNCHANGED genVars
    /\ UNCHANGED out
    /\ UNCHANGED <<tables_to_generate, final_counts, store0, persisted, visible,
                   company_ids, contact_ids, contact_company_map, product_data,
                   deal_ids, idx, last_rows, fetched, generated, commits>>

\* the requests of a run: "all", or up to MaxTokens tokens naming a table or
\* the unknown name, each with or without a count
RunTokens ==
    {Token(name, count) :
        name \in RequestNames,
        count \in {None} \cup {Some(c) : c \in 0..MaxCount}}

RunSpecs ==
    {<<Token("all", None)>>} \cup UNION {[1..k -> RunTokens] : k \in 1..MaxTokens}

Init ==
    /\ pc = "parse"
    /\ args \in [tables : RunSpecs,
                 count : {None} \cup {Some(c) : c \in 0..MaxCount},
                 no_deps : BOOLEAN]
    /\ table_counts = EmptyDict
    /\ unknown_table = ""
    /\ ResolverIdle
    /\ DriverIdle
    /\ GenIdle
    /\ OutputIdle

Next ==
    \/ ParseArgs
    \/ ResolveEntry
    \/ ClosureStep
    \/ ClosureDone
    \/ OrderStep
    \/ ResolveReturn
    \/ BuildPlan
    \/ Connect
    \/ GenCompanies
    \/ GenContacts
    \/ GenProducts
    \/ GenDeals
    \/ GenDealProducts
    \/ GenActivities
    \/ GenNotes
    \/ GenTasks
    \/ Commit
    \/ Finish

Spec == Init /\ [][Next]_vars

-----------------------------------------------------------------------------
(* The runs of main() on the requests 'companies:n,contacts:m' with deps *)

InitScenario ==
    /\ pc = "parse"
    /\ args \in [tables : ScenarioSpecs,
                 count : {None} \cup {Some(c) : c \in 0..MaxCount},
                 no_deps : {FALSE}]
    /\ table_counts = EmptyDict
    /\ unknown_table = ""
    /\ ResolverIdle
    /\ DriverIdle
    /\ GenIdle
    /\ OutputIdle

NextScenario ==
    \/ ParseArgs
    \/ ResolveEntry
    \/ ClosureStep
    \/ ClosureDone
    \/ OrderStep
    \/ ResolveReturn
    \/ BuildPlan
    \/ Connect
    \/ GenCompanies
    \/ GenContacts
    \/ Commit
    \/ Finish

SpecScenario == InitScenario /\ [][NextScenario]_vars

-----------------------------------------------------------------------------
(* generate_deal_products alone, one pass of its while loop per step *)

\* the largest pool of deal ids and of product ids given to the generator
MaxPool == 2
\* the largest count asked of the generator
MaxPairs == 3

\* LoopRuns with the loop running while the list is not longer than count
LoopRunsOneMore(list, count) == Len(list) <= count

\* "while len(deal_products) < count"
LoopRuns(list, count) == Len(list) < count

\* AfterDraw with a pair that is in used_pairs appended all the same
AfterDrawKeepsCollision(list, used, pr) == Append(list, pr)

\* deal_products after one pass that drew pr: "continue" when pr is in
\* used_pairs, else append
AfterDraw(list, used, pr) ==
    IF pr \in used THEN list ELSE Append(list, pr)

\* what a step inside generate_deal_products leaves alone
DealProductsFrame ==
    /\ UNCHANGED <<args, table_counts, unknown_table>>
    /\ UNCHANGED resolverVars
    /\ UNCHANGED <<tables_to_generate, final_counts, store0, commits, company_ids,
                   contact_ids, contact_company_map, product_data, deal_ids>>
    /\ UNCHANGED <<used_skus, sku>>
    /\ UNCHANGED outputVars

\* one pass of the while loop with the pair (deal_id, product_id) drawn
DrawPair(deal_id, product_id) ==
    /\ g_pc = "loop"
    /\ LoopRuns(deal_products, final_counts["deal_products"])
    /\ pair' = <<deal_id, product_id>>
    /\ deal_products' = AfterDraw(deal_products, used_pairs, pair')
    /\ used_pairs' = used_pairs \cup {pair'}
    /\ UNCHANGED <<pc, g_pc, connection, persisted, visible, idx, last_rows,
                   fetched, generated>>
    /\ DealProductsFrame

\* a pass that draws a pair that is in used_pairs
DrawUsedPair ==
    \E deal_id \in deal_ids, product_id \in product_data :
        /\ <<deal_id, product_id>> \in used_pairs
        /\ DrawPair(deal_id, product_id)

\* a pass that draws a pair that is not in used_pairs
DrawFreshPair ==
    \E deal_id \in deal_ids, product_id \in product_data :
        /\ <<deal_id, product_id>> \notin used_pairs
        /\ DrawPair(deal_id, product_id)

\* the records of the list, with the ids the serial column gives them
DealProductRows(conn, list) ==
    {Row("deal_products", conn.n["deal_products"] + i, NULL, NULL,
         list[i][1], list[i][2]) : i \in 1..Len(list)}

\* the loop has ended: the one conn.execute with the whole list, and return
InsertDealProducts ==
    /\ g_pc = "loop"
    /\ ~LoopRuns(deal_products, final_counts["deal_products"])
    /\ BatchInsert("deal_products",
                   Inserted(visible, "deal_products", Len(deal_products)),
                   DealProductRows(visible, deal_products), fetched)
    /\ g_pc' = IF connection' = "closed" THEN "raised" ELSE "returned"
    /\ UNCHANGED <<deal_products, used_pairs, pair>>
    /\ DealProductsFrame

InitDealProducts ==
    /\ pc = "generate"
    /\ args = [tables |-> <<>>, count |-> None, no_deps |-> FALSE]
    /\ table_counts = EmptyDict
    /\ unknown_table = ""
    /\ ResolverIdle
    /\ tables_to_generate = <<"deal_products">>
    /\ final_counts \in [{"deal_products"} -> (-1)..MaxPairs]
    /\ connection = "open"
    /\ \E d, p \in 1..MaxPool :
          /\ store0 = MkStore(1, <<>>, d, p)
          /\ deal_ids = 1..d
          /\ product_data = 1..p
    /\ persisted = store0
    /\ visible = store0
    /\ company_ids = {}
    /\ contact_ids = {}
    /\ contact_company_map = <<>>
    /\ idx = 1
    /\ last_rows = {}
    /\ fetched = {"deals", "products"}
    /\ generated = <<>>
    /\ commits = 0
    /\ g_pc = "loop"
    /\ deal_products = <<>>
    /\ used_pairs = {}
    /\ pair = <<0, 0>>
    /\ used_skus = {}
    /\ sku = <<"", 0>>
    /\ OutputIdle

NextDealProducts ==
    \/ DrawUsedPair
    \/ DrawFreshPair
    \/ InsertDealProducts

SpecDealProducts == InitDealProducts /\ [][NextDealProducts]_vars

\* random.choice is fair: a pair that is not in used_pairs is drawn in the end,
\* and the statement after the loop is executed
FairDealProducts ==
    /\ SpecDealProducts
    /\ WF_vars(DrawFreshPair)
    /\ WF_vars(InsertDealProducts)

-----------------------------------------------------------------------------
(* generate_products alone, one draw of a SKU per step *)

\* the number of values random.randint(1000, 9999) has in the model
MaxSku == 2
\* the number of categories random.choice draws from in the model
MaxCategories == 2
\* the largest count asked of the generator
MaxProducts == 3

PRODUCT_CATEGORIES ==
    <<"Software", "Hardware", "Services", "Support", "Training",
      "Consulting", "Subscription", "License", "Integration", "Custom Development">>

\* category[:3].upper()
SkuPrefix(category) ==
    CASE category = "Software"           -> "SOF"
      [] category = "Hardware"           -> "HAR"
      [] category = "Services"           -> "SER"
      [] category = "Support"            -> "SUP"
      [] category = "Training"           -> "TRA"
      [] category = "Consulting"         -> "CON"
      [] category = "Subscription"       -> "SUB"
      [] category = "License"            -> "LIC"
      [] category = "Integration"        -> "INT"
      [] category = "Custom Development" -> "CUS"

\* the categories drawn in the model
DrawnCategories == {PRODUCT_CATEGORIES[i] : i \in 1..MaxCategories}

\* the values of random.randint(1000, 9999) in the model
SkuNumbers == 1000..(999 + MaxSku)

\* f"{category[:3].upper()}-{number}"
Sku(category, number) == <<SkuPrefix(category), number>>

\* what a step inside generate_products leaves alone
ProductsFrame ==
    /\ UNCHANGED <<pc, args, table_counts, unknown_table>>
    /\ UNCHANGED resolverVars
    /\ UNCHANGED <<tables_to_generate, final_counts, connection, store0, persisted,
                   company_ids, contact_ids, contact_company_map, deal_ids, idx,
                   fetched, generated, commits>>
    /\ UNCHANGED <<deal_products, used_pairs, pair>>
    /\ UNCHANGED outputVars

\* "for i in range(count)": the next record is begun and its first SKU drawn
DrawSku ==
    /\ g_pc = "for"
    /\ Cardinality(product_data) < final_counts["products"]
    /\ \E category \in DrawnCategories, number \in SkuNumbers :
          sku' = Sku(category, number)
    /\ g_pc' = "while"
    /\ UNCHANGED <<used_skus, product_data, visible, last_rows>>
    /\ ProductsFrame

\* "while sku in used_skus": another number for the same category
RedrawSku ==
    /\ g_pc = "while"
    /\ sku \in used_skus
    /\ \E number \in SkuNumbers : sku' = <<sku[1], number>>
    /\ UNCHANGED <<g_pc, used_skus, product_data, visible, last_rows>>
    /\ ProductsFrame

\* the SKU is unused: used_skus.add(sku), the INSERT, product_data[id] = price
AddProduct ==
    /\ g_pc = "while"
    /\ sku \notin used_skus
    /\ used_skus' = used_skus \cup {sku}
    /\ visible' = Inserted(visible, "products", 1)
    /\ product_data' = product_data \cup NewIds(visible, "products", 1)
    /\ last_rows' = last_rows \cup
          {Row("products", i, NULL, NULL, NULL, NULL) :
              i \in NewIds(visible, "products", 1)}
    /\ g_pc' = "for"
    /\ UNCHANGED sku
    /\ ProductsFrame

\* the for loop has ended: "return product_data"
ProductsReturn ==
    /\ g_pc = "for"
    /\ Cardinality(product_data) >= final_counts["products"]
    /\ g_pc' = "returned"
    /\ UNCHANGED <<used_skus, sku, product_data, visible, last_rows>>
    /\ ProductsFrame

InitProducts ==
    /\ pc = "generate"
    /\ args = [tables |-> <<>>, count |-> None, no_deps |-> FALSE]
    /\ table_counts = EmptyDict
    /\ unknown_table = ""
    /\ ResolverIdle
    /\ tables_to_generate = <<"products">>
    /\ final_counts \in [{"products"} -> (-1)..MaxProducts]
    /\ connection = "open"
    /\ store0 \in {MkStore(0, <<>>, 0, p) : p \in 0..MaxStore}
    /\ persisted = store0
    /\ visible = store0
    /\ company_ids = {}
    /\ contact_ids = {}
    /\ contact_company_map = <<>>
    /\ product_data = {}
    /\ deal_ids = {}
    /\ idx = 1
    /\ last_rows = {}
    /\ fetched = {}
    /\ generated = <<>>
    /\ commits = 0
    /\ g_pc = "for"
    /\ deal_products = <<>>
    /\ used_pairs = {}
    /\ pair = <<0, 0>>
    /\ used_skus = {}
    /\ sku = <<"", 0>>
    /\ OutputIdle

NextProducts ==
    \/ DrawSku
    \/ RedrawSku
    \/ AddProduct
    \/ ProductsReturn

SpecProducts == InitProducts /\ [][NextProducts]_vars

\* the generator keeps running: a statement that can be executed is executed
FairProducts == SpecProducts /\ WF_vars(NextProducts)

-----------------------------------------------------------------------------
(* Text-emission mode: main() of src/src/generate_data_sql.py.  A statement  *)
(* printed is kept in out by its kind, table and id; the foreign keys of the *)
(* INSERT statements of the last generator call are kept in last_rows        *)

\* the largest count per table the text-emission run is followed with
MaxConfig == 2

\* SQL_ORDER with generate_deals called before generate_contacts
SQL_ORDER_DealsEarly ==
    <<"companies", "deals", "contacts", "products",
      "deal_products", "activities", "notes", "tasks">>

\* the order of the generator calls of main()
SQL_ORDER ==
    <<"companies", "contacts", "products", "deals",
      "deal_products", "activities", "notes", "tasks">>

Stmt(kind, table, id) == [kind |-> kind, table |-> table, id |-> id]

\* the value of the setval statement: count, but for deal_products the
\* counter dp_id of the rows printed (line 243), which is 0 for a count below 0
SetvalArg(table, count) ==
    IF table = "deal_products" THEN Count(count) ELSE count

\* what a generator prints: the INSERT statements with ids 1..count, then
\* the setval of the table's sequence
TableStmts(table, count) ==
    [i \in 1..Count(count) |-> Stmt("INSERT", table, i)]
        \o <<Stmt("SETVAL", table, SetvalArg(table, count))>>

\* list(range(1, count + 1))
IdRange(count) == 1..Count(count)

SqlAt(table) ==
    /\ pc = "sql"
    /\ idx <= Len(SQL_ORDER)
    /\ SQL_ORDER[idx] = table

\* what no step of the text-emission run changes
SqlFrame ==
    /\ UNCHANGED <<args, table_counts, unknown_table>>
    /\ UNCHANGED resolverVars
    /\ UNCHANGED <<tables_to_generate, final_counts, connection, store0, persisted,
                   visible, fetched, generated, commits>>
    /\ UNCHANGED <<genVars, reported>>

\* a generator has printed its statements and returned
SqlEmit(table, rows) ==
    /\ out' = out \o TableStmts(table, final_counts[table])
    /\ last_rows' = rows
    /\ idx' = idx + 1
    /\ UNCHANGED pc

\* the header comments and "BEGIN;"
SqlBegin ==
    /\ pc = "sql_begin"
    /\ out' = Append(out, Stmt("BEGIN", "", 0))
    /\ pc' = "sql"
    /\ idx' = 1
    /\ UNCHANGED <<last_rows, company_ids, contact_ids, contact_company_map,
                   product_data, deal_ids>>
    /\ SqlFrame

\* random.choice on an empty pool in the first pass of a generator's loop:
\* IndexError, nothing of the table printed, the run ends
SqlRaise ==
    /\ pc' = "error"
    /\ UNCHANGED <<out, last_rows, idx, company_ids, contact_ids, contact_company_map,
                   product_data, deal_ids>>

\* the loop of the generator runs and draws from a pool that is empty
DrawsFromEmpty(table, pool) == Count(final_counts[table]) > 0 /\ pool = {}

SqlCompanies ==
    /\ SqlAt("companies")
    /\ company_ids' = IdRange(final_counts["companies"])
    /\ SqlEmit("companies",
               {Row("companies", i, NULL, NULL, NULL, NULL) : i \in company_ids'})
    /\ UNCHANGED <<contact_ids, contact_company_map, product_data, deal_ids>>
    /\ SqlFrame

SqlContacts ==
    /\ SqlAt("contacts")
    /\ IF DrawsFromEmpty("contacts", company_ids)
       THEN SqlRaise
       ELSE /\ contact_ids' = IdRange(final_counts["contacts"])
            /\ \E f \in [contact_ids' -> company_ids] :
                  /\ contact_company_map' = f
                  /\ SqlEmit("contacts",
                             {Row("contacts", i, f[i], NULL, NULL, NULL) :
                                 i \in contact_ids'})
            /\ UNCHANGED <<company_ids, product_data, deal_ids>>
    /\ SqlFrame

SqlProducts ==
    /\ SqlAt("products")
    /\ product_data' = IdRange(final_counts["products"])
    /\ SqlEmit("products",
               {Row("products", i, NULL, NULL, NULL, NULL) : i \in product_data'})
    /\ UNCHANGED <<company_ids, contact_ids, contact_company_map, deal_ids>>
    /\ SqlFrame

SqlDeals ==
    /\ SqlAt("deals")
    /\ IF DrawsFromEmpty("deals", company_ids)
       THEN SqlRaise
       ELSE /\ deal_ids' = IdRange(final_counts["deals"])
            /\ \E f \in [deal_ids' -> DealChoices(company_ids, contact_company_map)] :
                  SqlEmit("deals",
                          {Row("deals", i, f[i][1], f[i][2], NULL, NULL) :
                              i \in deal_ids'})
            /\ UNCHANGED <<company_ids, contact_ids, contact_company_map,
                           product_data>>
    /\ SqlFrame

SqlDealProducts ==
    /\ SqlAt("deal_products")
    /\ IF DrawsFromEmpty("deal_products", deal_ids \X product_data)
       THEN SqlRaise
       ELSE IF Count(final_counts["deal_products"]) > Cardinality(deal_ids \X product_data)
       THEN \* every pair is printed once, then no unused pair is left and
            \* the while loop (lines 226-232) never ends: no setval
            \E f \in [1..Cardinality(deal_ids \X product_data) ->
                          deal_ids \X product_data] :
               /\ {f[i] : i \in DOMAIN f} = deal_ids \X product_data
               /\ out' = out \o [i \in DOMAIN f |-> Stmt("INSERT", "deal_products", i)]
               /\ last_rows' =
                     {Row("deal_products", i, NULL, NULL, f[i][1], f[i][2]) :
                         i \in DOMAIN f}
               /\ pc' = "sql_hang"
               /\ UNCHANGED <<idx, company_ids, contact_ids, contact_company_map,
                              product_data, deal_ids>>
       ELSE \E ps \in PairSets(deal_ids, product_data, final_counts["deal_products"]) :
            \E f \in [IdRange(final_counts["deal_products"]) -> ps] :
               /\ {f[i] : i \in DOMAIN f} = ps
               /\ SqlEmit("deal_products",
                          {Row("deal_products", i, NULL, NULL, f[i][1], f[i][2]) :
                              i \in DOMAIN f})
               /\ UNCHANGED <<company_ids, contact_ids, contact_company_map,
                              product_data, deal_ids>>
    /\ SqlFrame

\* generate_activities and generate_notes: a contact of the pool per record
SqlOnContacts(table) ==
    /\ SqlAt(table)
    /\ IF DrawsFromEmpty(table, contact_ids)
       THEN SqlRaise
       ELSE /\ \E f \in [IdRange(final_counts[table]) -> contact_ids] :
                  SqlEmit(table,
                          {Row(table, i, NULL, f[i], NULL, NULL) : i \in DOMAIN f})
            /\ UNCHANGED <<company_ids, contact_ids, contact_company_map,
                           product_data, deal_ids>>
    /\ SqlFrame

SqlActivities == SqlOnContacts("activities")

SqlNotes == SqlOnContacts("notes")

SqlTasks ==
    /\ SqlAt("tasks")
    /\ IF DrawsFromEmpty("tasks", deal_ids)
       THEN SqlRaise
       ELSE /\ \E f \in [IdRange(final_counts["tasks"]) -> deal_ids] :
                  SqlEmit("tasks",
                          {Row("tasks", i, NULL, NULL, f[i], NULL) : i \in DOMAIN f})
            /\ UNCHANGED <<company_ids, contact_ids, contact_company_map,
                           product_data, deal_ids>>
    /\ SqlFrame

\* "COMMIT;" after the last generator
SqlCommit ==
    /\ pc = "sql"
    /\ idx > Len(SQL_ORDER)
    /\ out' = Append(out, Stmt("COMMIT", "", 0))
    /\ pc' = "sql_done"
    /\ UNCHANGED <<idx, last_rows, company_ids, contact_ids, contact_company_map,
                   product_data, deal_ids>>
    /\ SqlFrame

\* CONFIG gives every table a positive count; the run is followed with every
\* table's count set to k, for k up to MaxConfig
InitSql ==
    /\ pc = "sql_begin"
    /\ args = [tables |-> <<>>, count |-> None, no_deps |-> FALSE]
    /\ table_counts = EmptyDict
    /\ unknown_table = ""
    /\ ResolverIdle
    /\ tables_to_generate = <<>>
    /\ final_counts \in {[t \in TableSet |-> k] : k \in 1..MaxConfig}
    /\ connection = "none"
    /\ store0 = EmptyStore
    /\ persisted = EmptyStore
    /\ visible = EmptyStore
    /\ company_ids = {}
    /\ contact_ids = {}
    /\ contact_company_map = <<>>
    /\ product_data = {}
    /\ deal_ids = {}
    /\ idx = 0
    /\ last_rows = {}
    /\ fetched = {}
    /\ generated = <<>>
    /\ commits = 0
    /\ GenIdle
    /\ OutputIdle

NextSql ==
    \/ SqlBegin
    \/ SqlCompanies
    \/ SqlContacts
    \/ SqlProducts
    \/ SqlDeals
    \/ SqlDealProducts
    \/ SqlActivities
    \/ SqlNotes
    \/ SqlTasks
    \/ SqlCommit

SpecSql == InitSql /\ [][NextSql]_vars

-----------------------------------------------------------------------------
(* Properties of the resolver, under SpecResolve *)

\* S is closed under TABLE_DEPENDENCIES
DepClosed(S) == \A t \in S : Deps(t) \subseteq S

\* the transitive closure of R: what every closed set of tables containing R holds
TransitiveClosure(R) ==
    {t \in TableSet : \A S \in SUBSET TableSet : (R \subseteq S /\ DepClosed(S)) => t \in S}

\* every table of the list stands after each of its dependencies in the list
DepsFirst(list) ==
    \A i \in 1..Len(list) :
        \A d \in Deps(list[i]) :
            d \in Range(list) => \E j \in 1..(i-1) : list[j] = d

ReturnedWithDeps ==
    /\ r_pc = "returned"
    /\ r_include_deps
    /\ Range(r_tables) \subseteq TableSet

\* C1: for every list R of distinct tables, resolve_dependencies(R, True)
\* returns a list without repeats whose set is the transitive closure of R
\* and in which every table stands after each of its dependencies
C1_ClosureAndOrder ==
    ReturnedWithDeps =>
        /\ NoRepeats(r_result)
        /\ Range(r_result) = TransitiveClosure(Range(r_tables))
        /\ \A i \in 1..Len(r_result) :
              \A d \in Deps(r_result[i]) : \E j \in 1..(i-1) : r_result[j] = d

\* C1 witness: deal_products alone resolves to its five-table closure
C1_Witness ==
    /\ ReturnedWithDeps
    /\ r_tables = <<"deal_products">>
    /\ Range(r_result) =
          {"companies", "contacts", "deals", "products", "deal_products"}

\* C6: when a pass of the ordering loop places no table while tables remain,
\* resolve_dependencies ends in a CycleError
C6_CycleErrorRaised ==
    (last_pass = "nothing" /\ remaining # {}) => r_pc = "CycleError"

\* C7: resolve_dependencies(R, False) returns the tables of R in the order
\* given, none added and none removed
C7_NoDepsPassthrough ==
    (r_pc = "returned" /\ ~r_include_deps) => r_result = r_tables

\* C7 witness: a list given out of dependency order, with a dependency missing
C7_Witness ==
    /\ r_pc = "returned"
    /\ ~r_include_deps
    /\ r_tables = <<"tasks", "contacts">>

\* C20: for every set R of tables, resolve_dependencies(R, True) is the list
\* ALL_TABLES restricted to the closure of R: one table placed per pass, the
\* first of ALL_TABLES that can be placed, gives the tables of the closure in
\* the order of the enumeration
C20_EnumerationOrder ==
    ReturnedWithDeps =>
        r_result = SelectIn(ALL_TABLES, TransitiveClosure(Range(r_tables)))

\* C20 witness: a request given against the order of the enumeration, whose
\* closure leaves tables of the enumeration out
C20_Witness ==
    /\ ReturnedWithDeps
    /\ r_tables = <<"tasks", "products">>
    /\ r_result = <<"companies", "contacts", "deals", "products", "tasks">>

-----------------------------------------------------------------------------
(* Properties of the resolver, under SpecResolveStepwise *)

\* the closure of a set of tables, by whole passes
RECURSIVE ClosureOf(_)
ClosureOf(gen) ==
    IF ClosurePass(gen) = gen THEN gen ELSE ClosureOf(ClosurePass(gen))

\* the list the ordering loop builds from ord and rem when it goes over
\* ALL_TABLES in its order
RECURSIVE OrderFrom(_, _, _)
OrderFrom(ord, rem, gen) ==
    IF rem = {} \/ ~CanPlace(ord, rem, gen) THEN ord
    ELSE OrderFrom(Append(ord, FirstPlaceable(ord, rem, gen)),
                   rem \ {FirstPlaceable(ord, rem, gen)}, gen)

\* the one sequence that depends on the arguments alone
ResultOf(tables, include_deps) ==
    IF include_deps
    THEN OrderFrom(<<>>, ClosureOf(Range(tables)), ClosureOf(Range(tables)))
    ELSE tables

\* C18: resolve_dependencies returns the same sequence on every call with the
\* same tables and the same include_deps: whatever order the closure loop
\* takes the tables of its working set in, the sequence returned is the one
\* that the arguments alone determine
C18_ResultDetermined ==
    r_pc = "returned" => r_result = ResultOf(r_tables, r_include_deps)

\* C18 witness: a call whose closure loop had six tables to go over in a pass
\* has returned
C18_Witness ==
    /\ r_pc = "returned"
    /\ r_include_deps
    /\ r_tables = <<"deal_products", "tasks">>
    /\ Len(r_result) = 6

\* a call with include_deps on a list of tables of the schema
CalledWithDeps ==
    /\ r_include_deps
    /\ Range(r_tables) \subseteq TableSet

\* a step of the closure loop leaves to_generate inside the schema, and a
\* pass that added a table made the set larger
ClosureGrows ==
    (CalledWithDeps /\ r_pc \in {"closure", "pass"}) =>
        /\ to_generate \subseteq to_generate'
        /\ to_generate' \subseteq TableSet
        /\ (r_pc = "pass" /\ added' /\ ~added) => to_generate' # to_generate

\* a pass of the ordering loop places a table: remaining loses one table
OrderPassPlaces ==
    (CalledWithDeps /\ r_pc = "order" /\ r_pc' = "order") =>
        /\ last_pass' = "placed"
        /\ Cardinality(remaining') = Cardinality(remaining) - 1
        /\ remaining' \subseteq remaining

\* C21: for every list R of tables of the schema, resolve_dependencies(R,
\* True) returns: the closure loop only grows the working set inside the
\* eight tables and so comes to a pass that adds nothing, every pass of the
\* ordering loop places a table and remaining loses it, until remaining is
\* empty and the function returns
C21_ResolveTerminates ==
    /\ [][ClosureGrows]_vars
    /\ [][OrderPassPlaces]_vars
    /\ (CalledWithDeps /\ r_pc = "entry") ~> (r_pc = "returned")

\* C21 witness: the call on tasks alone has returned; its closure loop needed
\* more than one pass (deals first, then companies and contacts) and its
\* ordering loop four
C21_Witness ==
    /\ CalledWithDeps
    /\ r_pc = "returned"
    /\ r_tables = <<"tasks">>
    /\ Len(r_result) = 4
    /\ remaining = {}

-----------------------------------------------------------------------------
(* Properties of the parser, under SpecParse *)

\* the last token of the list that names the table
LastTokenFor(tables_arg, table) ==
    tables_arg[CHOOSE i \in 1..Len(tables_arg) :
                  /\ Strip(tables_arg[i].name) = table
                  /\ \A j \in (i+1)..Len(tables_arg) : Strip(tables_arg[j].name) # table]

\* the count the specification gives a token
ExpectedCount(token, table, default_count) ==
    IF token.count.some THEN token.count.v
    ELSE IF default_count.some /\ default_count.v # 0 THEN default_count.v
         ELSE DEFAULT_COUNTS[table]

Parsed == pc = "resolve"

SpecExample == <<Token("companies", Some(50)), Token("contacts", None)>>

\* C10: a token with a count yields that count, zero and negative included;
\* a bare token yields default_count when given and non-zero, else the
\* built-in default; parse('all', None) gives every table its built-in
\* default; parse('companies:50,contacts', 100) gives companies 50, contacts 100
C10_TokenCounts ==
    Parsed =>
        /\ ~IsAll(args.tables) =>
              \A table \in DOMAIN table_counts.val :
                  table_counts.val[table] =
                      ExpectedCount(LastTokenFor(args.tables, table), table, args.count)
        /\ (args.tables = <<Token("all", None)>> /\ args.count = None) =>
              /\ table_counts.keys = ALL_TABLES
              /\ table_counts.val = DEFAULT_COUNTS
        /\ (args.tables = SpecExample /\ args.count = Some(100)) =>
              /\ table_counts.keys = <<"companies", "contacts">>
              /\ table_counts.val["companies"] = 50
              /\ table_counts.val["contacts"] = 100

\* C10 witness: the parse of 'companies:50,contacts' with default_count 100
C10_Witness ==
    /\ Parsed
    /\ args.tables = SpecExample
    /\ args.count = Some(100)
    /\ DOMAIN table_counts.val = {"companies", "contacts"}

\* the token reads 'all' once its whitespace is stripped and its case folded
IsAllToken(token) == ~token.count.some /\ Lower(Strip(token.name)) = "all"

\* a list with a token 'all' whose other tokens all name tables
HasAllToken(tables_arg) ==
    /\ \E i \in 1..Len(tables_arg) : IsAllToken(tables_arg[i])
    /\ \A i \in 1..Len(tables_arg) :
          IsAllToken(tables_arg[i]) \/ Strip(tables_arg[i].name) \in TableSet

\* C11: a token equal to 'all' (case folded, whitespace stripped) expands to
\* every table of ALL_TABLES, also when it is one of several tokens or has
\* whitespace around it
C11_AllTokenExpands ==
    (pc # "parse" /\ HasAllToken(args.tables)) =>
        /\ Parsed
        /\ Range(table_counts.keys) = TableSet

-----------------------------------------------------------------------------
(* Properties of generate_deal_products, under SpecDealProducts *)

DealProductsReturned == g_pc = "returned"

\* the (deal, product) pairs of the deal-product records inserted
InsertedPairs == {<<row.deal_id, row.product_id>> : row \in last_rows}

\* C12: when generate_deal_products returns for a count n >= 0, exactly n
\* records were inserted and no two of them have the same (deal, product)
\* pair; a pass that draws a pair of used_pairs adds no record
C12_DistinctPairs ==
    /\ [](DealProductsReturned /\ final_counts["deal_products"] >= 0 =>
            /\ Len(deal_products) = final_counts["deal_products"]
            /\ NoRepeats(deal_products)
            /\ Cardinality(last_rows) = final_counts["deal_products"]
            /\ Cardinality(InsertedPairs) = final_counts["deal_products"]
            /\ InsertedPairs \subseteq deal_ids \X product_data
            /\ visible.n["deal_products"] =
                  store0.n["deal_products"] + final_counts["deal_products"])
    /\ [][pair' \in used_pairs => deal_products' = deal_products]_vars

\* C12 witness: the generator returned with MaxPairs records inserted, out of
\* pools that hold more pairs than that
C12_Witness ==
    /\ DealProductsReturned
    /\ final_counts["deal_products"] = MaxPairs
    /\ Cardinality(deal_ids \X product_data) > MaxPairs
    /\ Cardinality(InsertedPairs) = MaxPairs

\* the pools hold at least count distinct pairs
PairsSuffice ==
    final_counts["deal_products"] <= Cardinality(deal_ids \X product_data)

DealProductsEnded == g_pc \in {"returned", "raised"}

\* C13: under fair random choice generate_deal_products ends whenever count is
\* at most |deal pool| x |product pool|, for every pool size and count; it
\* runs forever only when count exceeds that number of distinct pairs
C13_TerminatesIffPairsSuffice ==
    /\ PairsSuffice ~> DealProductsEnded
    /\ [](DealProductsEnded => PairsSuffice)

\* C13 witness: the generator returned after it used every pair of the pools
C13_Witness ==
    /\ DealProductsReturned
    /\ final_counts["deal_products"] = Cardinality(deal_ids \X product_data)
    /\ used_pairs = deal_ids \X product_data
    /\ Cardinality(used_pairs) >= 2

-----------------------------------------------------------------------------
(* Properties of generate_products, under FairProducts *)

\* the while loop is at a SKU whose prefix has no unused value left
SkuExhausted ==
    /\ g_pc = "while"
    /\ \A number \in SkuNumbers : <<sku[1], number>> \in used_skus

\* C14: when every SKU of the prefix of the category drawn is in used_skus,
\* generate_products ends in UniquenessExhaustedError after a bounded number
\* of draws; it does not retry forever
C14_SkuExhaustionRaises ==
    SkuExhausted ~> (g_pc = "UniquenessExhaustedError")

-----------------------------------------------------------------------------
(* Properties of the runs on 'companies:n,contacts:m', under SpecScenario *)

ScenarioDone == pc = "done" /\ args.tables \in ScenarioSpecs /\ ~args.no_deps

\* the n and the m of the request
ScenarioN == args.tables[1].count.v
ScenarioM == args.tables[2].count.v

\* the plan is [companies, contacts]; n companies and then m contacts were
\* generated; every new contact references a company generated in the run
ScenarioGenerated ==
    /\ tables_to_generate = <<"companies", "contacts">>
    /\ generated = <<"companies", "contacts">>
    /\ visible.n["companies"] = store0.n["companies"] + ScenarioN
    /\ visible.n["contacts"] = store0.n["contacts"] + ScenarioM
    /\ Cardinality(company_ids) = ScenarioN
    /\ \A i \in (store0.n["contacts"] + 1)..visible.n["contacts"] :
          /\ visible.contact_company[i] \in company_ids
          /\ visible.contact_company[i] > store0.n["companies"]
    /\ persisted = visible

\* C16 as stated: the run of 'companies:n,contacts:m' with deps and n, m > 0
\* has the plan [companies, contacts], generates n companies and then m
\* contacts that reference those companies, and reports the final counts
\* companies: n, contacts: m
C16_ScenarioReportsRequested ==
    ScenarioDone =>
        /\ ScenarioGenerated
        /\ reported = [table \in {"companies", "contacts"} |->
                          IF table = "companies" THEN ScenarioN ELSE ScenarioM]

\* C16 amended: as stated, but the counts verify_data reports are the number
\* of rows of each table after the run: the rows the table had before the run
\* plus n, and plus m
C16_ScenarioReportsTotals ==
    /\ (args.tables \in ScenarioSpecs /\ ~args.no_deps) =>
          pc \notin {"exit", "error", "hang"}
    /\ ScenarioDone =>
          /\ ScenarioGenerated
          /\ reported = [table \in {"companies", "contacts"} |->
                IF table = "companies" THEN store0.n["companies"] + ScenarioN
                ELSE store0.n["contacts"] + ScenarioM]

\* C16 witness: the run of 'companies:3,contacts:5' has ended on a store that
\* had a company and a contact before
C16_Witness ==
    /\ ScenarioDone
    /\ ScenarioN = 3
    /\ ScenarioM = 5
    /\ store0.n["companies"] = 1
    /\ store0.n["contacts"] = 1
    /\ reported["companies"] = 4
    /\ reported["contacts"] = 6

-----------------------------------------------------------------------------
(* Properties of a run, under Spec *)

\* the for loop over the plan is running or has run
PlanExecuted == pc \in {"generate", "verify", "done"}

\* C2: in every resolved plan the driver executes, with or without --no-deps
\* and for every order of the tokens, each table stands after each of its
\* dependencies that is in the plan
C2_PlanDepsFirst == PlanExecuted => DepsFirst(tables_to_generate)

\* the table a foreign-key column references
FkColumns ==
    {<<"company_id", "companies">>, <<"contact_id", "contacts">>,
     <<"deal_id", "deals">>, <<"product_id", "products">>}

\* the identifier exists on the connection, and is one a generator of this
\* run produced or one of a table the run fetched from the store
KnownId(v, table) ==
    /\ v \in 1..visible.n[table]
    /\ \/ v > store0.n[table] /\ table \in Range(generated)
       \/ v <= store0.n[table] /\ table \in fetched

\* C3: every foreign key of a record a generator creates is an identifier a
\* generator produced earlier in the run or one fetched from the store
\* before; none references an identifier that does not exist
C3_ForeignKeysExist ==
    \A row \in last_rows :
        \A col \in FkColumns :
            row[col[1]] # NULL => KnownId(row[col[1]], col[2])

\* C3 witness: after contacts were generated in the run, a task is created
\* that references a deal fetched from the store
C3_Witness ==
    /\ \E row \in last_rows :
          /\ row.table = "tasks"
          /\ row.deal_id <= store0.n["deals"]
    /\ "deals" \in fetched
    /\ "contacts" \in Range(generated)

\* the table the loop is at needs a pool that is empty while the store has
\* no row of that table
PoolOf(table) ==
    CASE table = "companies" -> company_ids
      [] table = "contacts"  -> contact_ids
      [] table = "deals"     -> deal_ids
      [] table = "products"  -> product_data

MissingPrerequisite ==
    /\ pc = "generate"
    /\ idx <= Len(tables_to_generate)
    /\ \E dep \in Deps(tables_to_generate[idx]) :
          PoolOf(dep) = {} /\ persisted.n[dep] = 0

\* C4: when the table the loop is at needs an empty pool and the store has no
\* row of the prerequisite, the next step aborts the run at that table: its
\* generator and those of the later tables are not called, no commit is made,
\* the store is as it was before the run, and nothing follows the abort
C4_AbortLeavesNothing ==
    [][/\ MissingPrerequisite =>
             /\ pc' = "exit"
             /\ generated' = generated
             /\ commits' = 0
             /\ persisted' = store0
             /\ connection' = "closed"
       /\ pc # "exit"]_vars

\* C4 witness: the run has aborted after rows of an earlier table were inserted
C4_Witness ==
    /\ pc = "exit"
    /\ unknown_table = ""
    /\ generated # <<>>
    /\ final_counts[generated[1]] > 0
    /\ persisted = store0

\* C5: the commit happens once, only after the generator of every table of
\* the plan has returned; a run that ends before the commit step has
\* committed nothing
C5_SingleFinalCommit ==
    /\ commits <= 1
    /\ commits = 1 => (generated = tables_to_generate /\ pc \in {"verify", "done"})
    /\ commits = 0 => persisted = store0
    /\ pc \in {"exit", "error", "hang"} => commits = 0
    /\ pc \in {"verify", "done"} => commits = 1

\* C5 witness: a run over several tables has ended with its one commit, and
\* the store holds the new rows
C5_Witness ==
    /\ pc = "done"
    /\ commits = 1
    /\ Len(tables_to_generate) >= 3
    /\ persisted # store0

\* the generator of the table was called and produced identifiers
Produced(table) == table \in Range(generated) /\ final_counts[table] > 0

\* the run was aborted by sys.exit(1) at the table the loop was at
AbortedAtTable == pc = "exit" /\ unknown_table = ""

\* a count of 0 raises no error in the generator that gets it
ZeroCountNoError ==
    pc = "error" => final_counts[generated[Len(generated)]] # 0

\* an abort happens only at a table with a prerequisite that the run did not
\* produce and of which the store has no row
AbortOnlyWithoutIds ==
    AbortedAtTable =>
        \E dep \in Deps(tables_to_generate[idx]) :
            ~Produced(dep) /\ store0.n[dep] = 0

\* a run that reaches the commit has called every generator of the plan, and
\* each has inserted as many rows as its count says
AllGeneratedNormally ==
    pc \in {"verify", "done"} =>
        /\ generated = tables_to_generate
        /\ \A table \in TableSet :
              visible.n[table] = store0.n[table] +
                 (IF table \in Range(tables_to_generate)
                  THEN Count(final_counts[table]) ELSE 0)

\* C15: a count of 0 produces zero records of the table without error; the
\* run aborts only when a later table needs a pool for which no identifiers
\* are available; the other tables of the plan are generated normally
C15_ZeroCountHarmless ==
    /\ ZeroCountNoError
    /\ AbortOnlyWithoutIds
    /\ AllGeneratedNormally

\* the table whose generator was called last
LastGenerated == generated[Len(generated)]

\* a step of the loop ends the run by sys.exit(1)
AbortStep == pc = "generate" /\ pc' = "exit"

\* C17: when the driver calls a generator that needs foreign keys, every pool
\* the generator requires is non-empty at the call, for every count, 0
\* included; when a required pool is empty the run is aborted and the
\* generator is not called
C17_PoolsNonEmptyAtCall ==
    [][/\ generated' # generated =>
             \A dep \in Deps(LastGenerated') : PoolOf(dep)' # {}
       /\ AbortStep =>
             /\ generated' = generated
             /\ \E dep \in Deps(tables_to_generate[idx]) :
                   PoolOf(dep) = {} /\ visible.n[dep] = 0]_vars

\* C17 witness: a generator that needs a pool was called with count 0, with
\* its pool read from the store
C17_Witness ==
    /\ generated # <<>>
    /\ LastGenerated = "tasks"
    /\ final_counts["tasks"] = 0
    /\ "deals" \in fetched
    /\ deal_ids # {}

DealRows == {row \in last_rows : row.table = "deals"}

\* C8: every generated deal has its company in the company pool; its contact,
\* when present, is in the contact pool and belongs to the deal's company;
\* a deal whose company has no contact in the mapping has no contact
C8_DealReferences ==
    \A row \in DealRows :
        /\ row.company_id \in company_ids
        /\ row.contact_id # NULL =>
              /\ row.contact_id \in contact_ids
              /\ visible.contact_company[row.contact_id] = row.company_id
        /\ (\A cid \in DOMAIN contact_company_map :
               contact_company_map[cid] # row.company_id) => row.contact_id = NULL

\* C8 witness: one call created a deal with a contact and a deal without one,
\* with contacts of another company in the mapping
C8_Witness ==
    \E r1, r2 \in DealRows :
        /\ r1.contact_id # NULL
        /\ r2.contact_id = NULL
        /\ \E cid \in DOMAIN contact_company_map :
              contact_company_map[cid] # r2.company_id

\* the first token of the list whose table is not in ALL_TABLES
HasUnknown(tables_arg) ==
    /\ ~IsAll(tables_arg)
    /\ \E i \in 1..Len(tables_arg) : Strip(tables_arg[i].name) \notin TableSet

FirstUnknown(tables_arg) ==
    Strip(tables_arg[CHOOSE i \in 1..Len(tables_arg) :
                        /\ Strip(tables_arg[i].name) \notin TableSet
                        /\ \A j \in 1..(i-1) :
                              Strip(tables_arg[j].name) \in TableSet].name)

\* C9: a specification with a table name outside ALL_TABLES, at any place of
\* the list, ends the run with an error that names it, before a connection
\* is opened and before a record is generated or inserted
C9_UnknownTableFatal ==
    (HasUnknown(args.tables) /\ pc # "parse") =>
        /\ pc = "exit"
        /\ unknown_table = FirstUnknown(args.tables)
        /\ connection = "none"
        /\ generated = <<>>
        /\ visible = EmptyStore
        /\ persisted = EmptyStore

\* C9 witness: the unknown name stands second, after a table with a count
C9_Witness ==
    /\ pc = "exit"
    /\ Len(args.tables) = 2
    /\ args.tables[1] = Token("companies", Some(1))
    /\ args.tables[2].name = "bogus"
    /\ unknown_table = "bogus"

-----------------------------------------------------------------------------
(* Properties of the final counts, under Spec *)

\* the tables the user named in --tables
NamedTables(tables_arg) ==
    IF IsAll(tables_arg) THEN TableSet
    ELSE {Strip(tables_arg[i].name) : i \in 1..Len(tables_arg)}

\* the plan and its counts have been built
PlanBuilt == pc \notin {"parse", "resolve", "exit"}

\* the count of an auto-included dependency
AutoIncludedCount(table, count_arg) ==
    IF count_arg.some /\ count_arg.v # 0 THEN count_arg.v ELSE DEFAULT_COUNTS[table]

\* C22: the final count of a table of the plan is, for a table the user
\* named, the count the parser returned for it, and that is the count written
\* in its token whatever --count is; for an auto-included dependency it is
\* --count when given and non-zero, else the built-in default of the table
C22_FinalCounts ==
    PlanBuilt =>
        /\ DOMAIN final_counts = Range(tables_to_generate)
        /\ \A table \in Range(tables_to_generate) :
              IF table \in NamedTables(args.tables)
              THEN /\ final_counts[table] =
                         parse_table_spec(args.tables, args.count).result.val[table]
                   /\ (~IsAll(args.tables)
                          /\ LastTokenFor(args.tables, table).count.some) =>
                         final_counts[table] =
                             LastTokenFor(args.tables, table).count.v
              ELSE final_counts[table] = AutoIncludedCount(table, args.count)

\* C22 witness: 'contacts:1' with --count 2 and dependencies included: the
\* plan holds contacts with its own count and companies with the global one
C22_Witness ==
    /\ PlanBuilt
    /\ args.tables = <<Token("contacts", Some(1))>>
    /\ args.count = Some(2)
    /\ ~args.no_deps
    /\ final_counts["contacts"] = 1
    /\ final_counts["companies"] = 2

-----------------------------------------------------------------------------
(* Properties of the effects of a run, under Spec *)

\* the table has the rows it had before the run, on the connection and in
\* the store
Untouched(table) ==
    /\ visible.n[table] = store0.n[table]
    /\ persisted.n[table] = store0.n[table]

\* the generators called so far are those of the first tables of the plan,
\* each called once, in the order of the plan
CalledOncePerPlanTable ==
    /\ Len(generated) <= Len(tables_to_generate)
    /\ \A i \in 1..Len(generated) : generated[i] = tables_to_generate[i]
    /\ NoRepeats(generated)

\* C23: a run inserts rows only into tables of the plan; it calls the
\* generator of a plan table once and, when it runs to its end, that of every
\* plan table; a dependency outside the plan (--no-deps) is read at most and
\* keeps the rows it had
C23_OnlyPlanTablesWritten ==
    /\ \A table \in TableSet \ Range(tables_to_generate) : Untouched(table)
    /\ \A row \in last_rows : row.table \in Range(tables_to_generate)
    /\ CalledOncePerPlanTable
    /\ pc \in {"verify", "done"} => generated = tables_to_generate
    /\ \A table \in fetched \ Range(tables_to_generate) : Untouched(table)

\* C23 witness: a --no-deps run on contacts and tasks has ended: it read the
\* companies and the deals of the store, left both as they were and added
\* rows to contacts and tasks
C23_Witness ==
    /\ pc = "done"
    /\ args.no_deps
    /\ tables_to_generate = <<"contacts", "tasks">>
    /\ generated = <<"contacts", "tasks">>
    /\ fetched = {"companies", "deals"}
    /\ Untouched("companies") /\ Untouched("deals")
    /\ store0.n["companies"] > 0 /\ store0.n["deals"] > 0
    /\ persisted.n["contacts"] > store0.n["contacts"]
    /\ persisted.n["tasks"] > store0.n["tasks"]

\* the deals generator was the last one called: contact_ids and
\* contact_company_map are the arguments it was given
DealsJustCalled == generated # <<>> /\ LastGenerated = "deals"

\* C24: when the driver calls the deals generator, the mapping it passes has
\* an entry for every contact identifier of the contact pool it passes, in
\* every order of the plan, also when an earlier activities or notes step of
\* a --no-deps plan fetched the pool from the store
C24_DealsMapCoversPool ==
    DealsJustCalled => contact_ids \subseteq DOMAIN contact_company_map

\* C25: in a run with the dependencies auto-included the driver reads no
\* identifiers from the store, whatever the counts: every pool a generator
\* is given was produced by a generator called earlier in the run
C25_NoFetchWithDeps ==
    ~args.no_deps => fetched = {}

\* the tables the driver holds a pool of
PoolTables == {"companies", "contacts", "deals", "products"}

\* the identifiers the table held in the store before the run
StoreIds(table) == 1..store0.n[table]

\* the identifiers the generator of the table produces in this run
RunIds(table) ==
    IF table \in DOMAIN final_counts
    THEN (store0.n[table] + 1)..(store0.n[table] + Count(final_counts[table]))
    ELSE {}

\* no pool holds identifiers of the run together with identifiers of the store
PoolsUnmixed ==
    \A table \in PoolTables :
        \/ PoolOf(table) \subseteq RunIds(table)
        \/ PoolOf(table) \subseteq StoreIds(table)

\* a step that calls the generator of a table with a pool leaves in the pool
\* what the generator produced, whatever was fetched into the pool before
GeneratorReplacesPool ==
    \A table \in PoolTables :
        (Len(generated') = Len(generated) + 1 /\ LastGenerated' = table) =>
            PoolOf(table)' = RunIds(table)'

\* C26: at every point of a run each pool of the driver is made of
\* identifiers generated in this run alone or of identifiers the store held
\* before the run alone; and the call of the generator of a table replaces
\* the pool of the table by what it produced
C26_PoolsNeverMixed ==
    /\ []PoolsUnmixed
    /\ [][GeneratorReplacesPool]_vars

\* C26 witness: a --no-deps run on contacts then companies has ended: the
\* pool of companies was fetched for contacts and holds, after companies was
\* generated, the new identifiers alone
C26_Witness ==
    /\ pc = "done"
    /\ args.no_deps
    /\ generated = <<"contacts", "companies">>
    /\ fetched = {"companies"}
    /\ store0.n["companies"] > 0
    /\ company_ids # {}
    /\ company_ids = RunIds("companies")
    /\ company_ids \cap StoreIds("companies") = {}

-----------------------------------------------------------------------------
(* Properties of the text-emission run, under SpecSql *)

\* the positions of out that hold a statement of the kind
Positions(kind) == {i \in 1..Len(out) : out[i].kind = kind}

\* the position of the INSERT statement of a table with an id, 0 when absent
InsertPosition(table, id) ==
    IF \E i \in Positions("INSERT") : out[i].table = table /\ out[i].id = id
    THEN CHOOSE i \in Positions("INSERT") : out[i].table = table /\ out[i].id = id
    ELSE 0

\* one BEGIN, and it stands before every INSERT
OneBeginFirst ==
    Positions("INSERT") # {} =>
        /\ Cardinality(Positions("BEGIN")) = 1
        /\ \A b \in Positions("BEGIN"), i \in Positions("INSERT") : b < i

\* when the run has ended: one COMMIT, and it stands after every INSERT
OneCommitLast ==
    /\ Cardinality(Positions("COMMIT")) <= 1
    /\ pc = "sql_done" =>
          /\ Cardinality(Positions("COMMIT")) = 1
          /\ \A c \in Positions("COMMIT"), i \in Positions("INSERT") : i < c
    /\ pc # "sql_done" => Positions("COMMIT") = {}

\* the INSERT statements of a table stand after all those of its dependencies
InsertsDepsFirst ==
    \A i, j \in Positions("INSERT") :
        out[j].table \in Deps(out[i].table) => j < i

\* every foreign key of a statement of the last generator call is the id of
\* an INSERT statement that stands earlier in out
SqlForeignKeysEarlier ==
    \A row \in last_rows :
        \A col \in FkColumns :
            row[col[1]] # NULL =>
                /\ InsertPosition(col[2], row[col[1]]) > 0
                /\ InsertPosition(col[2], row[col[1]]) < InsertPosition(row.table, row.id)

\* C19: the statements printed have one BEGIN before every INSERT and one
\* COMMIT after every INSERT; the INSERT statements of a table come after all
\* those of every table it depends on; every foreign key in a statement is
\* the id of a statement printed earlier
C19_SqlTransactionAndOrder ==
    /\ OneBeginFirst
    /\ OneCommitLast
    /\ InsertsDepsFirst
    /\ SqlForeignKeysEarlier

\* C19 witness: the run has ended; its last generator printed tasks that
\* reference different deals, and every table has INSERT statements in out
C19_Witness ==
    /\ pc = "sql_done"
    /\ out[Len(out)].kind = "COMMIT"
    /\ {out[i].table : i \in Positions("INSERT")} = TableSet
    /\ \E r1, r2 \in last_rows :
          r1.table = "tasks" /\ r2.table = "tasks" /\ r1.deal_id # r2.deal_id

=============================================================================
